---------------------------- MODULE Spec2Model ----------------------------
(***************************************************************************)
(* Model of bigquery/make_web.py: aggregation of social graph link records *)
(* (load_links), per-domain scoring and assembly of the site records       *)
(* (make_full), and the derived base and internal views (make_base,        *)
(* make_internal, json_dump).                                              *)
(*                                                                         *)
(* A Python dict is modelled as a sequence of [k, v] entries in insertion  *)
(* order, which is the order dict iteration and sorted() see.  A Decimal   *)
(* is modelled by its numeric value: raw scores are integers, normalized   *)
(* scores are integers counted in units of 1 / ScoreOne.  A site record    *)
(* keeps the fields domain, hcard, links_out, links_in, links and          *)
(* links_truncated; the fields no property below reads (tags, servers,     *)
(* crawl times, num_pages) are left out.                                   *)
(***************************************************************************)
EXTENDS Integers, Sequences, FiniteSets, TLC

VARIABLES
  pc,            \* position of __main__ / make_full
  error,         \* exception that ended the run, "none" while running
  sites,         \* inputs[0]: the base site list
  extras,        \* inputs[2:]: the extra site data sequences
  links,         \* load_links: links
  from_domains,  \* load_links: from_domains
  out_counts,    \* load_links: out_counts
  in_counts,     \* load_links: in_counts
  links_in,      \* the link records load_links has consumed, in order
  todo,          \* make_full: sites + more_sites not yet emitted
  full,          \* records yielded by make_full so far
  base,          \* make_base(full)
  internal,      \* make_internal(full, domains)
  domains,       \* the domain set handed to make_internal
  files          \* json_dump: directory -> (domain -> record)

vars == << pc, error, sites, extras, links, from_domains, out_counts,
           in_counts, links_in, todo, full, base, internal, domains, files >>

-----------------------------------------------------------------------------
\* ---- bounds ----
MaxLinks == 2        \* link records read
MaxSites == 2        \* records in the base site list
MaxExtras == 1       \* extra files, of one record each
MaxRecords == 2      \* records of a full list handed to the view functions

Domains == {"a.com", "b.com", "c.com"}

-----------------------------------------------------------------------------
\* ---- Python dicts and strings ----
EmptyDict == << >>

DictHas(d, k) == \E i \in 1..Len(d) : d[i].k = k

DictIndex(d, k) == CHOOSE i \in 1..Len(d) : d[i].k = k

\* d.get(k, default); also the read half of defaultdict.__getitem__
DictGet(d, k, default) == IF DictHas(d, k) THEN d[DictIndex(d, k)].v ELSE default

\* d[k] = v: an existing key keeps its position, a new key goes last
DictSet(d, k, v) ==
  IF DictHas(d, k)
    THEN [i \in 1..Len(d) |-> IF d[i].k = k THEN [k |-> k, v |-> v] ELSE d[i]]
    ELSE Append(d, [k |-> k, v |-> v])

DictKeys(d) == [i \in 1..Len(d) |-> d[i].k]

DictKeySet(d) == {d[i].k : i \in 1..Len(d)}

\* A string is kept as the sequence of its pieces, so that startswith and
\* slicing can be computed: <<"u-", "like-of">> is 'u-like-of'.
RECURSIVE Join(_)
Join(s) == IF s = << >> THEN "" ELSE Head(s) \o Join(Tail(s))

StartsWithU(s) == s # << >> /\ Head(s) = "u-"

-----------------------------------------------------------------------------
\* ---- constants ----
MF2_WEIGHTS ==
  ("in-reply-to" :> 5) @@ ("invitee" :> 5) @@ ("quotation-of" :> 3) @@
  ("repost-of" :> 3) @@ ("like-of" :> 2) @@ ("favorite-of" :> 2) @@
  ("bookmark-of" :> 2) @@ ("other" :> 1)

DIRECTION_WEIGHTS == ("out" :> 2) @@ ("in" :> 1)

MAX_BASE_LINKS == 500

Prec == 3

-----------------------------------------------------------------------------
\* ---- decimal arithmetic ----
RECURSIVE Pow10(_)
Pow10(e) == IF e = 0 THEN 1 ELSE 10 * Pow10(e - 1)

\* number of digits of n beyond the context precision
RECURSIVE Excess(_)
Excess(n) == IF n < Pow10(Prec) THEN 0 ELSE 1 + Excess(n \div 10)

\* ROUND_HALF_EVEN of q + r/den to an integer
HalfEven(q, r, den) ==
  IF 2 * r > den \/ (2 * r = den /\ q % 2 = 1) THEN q + 1 ELSE q

\* a non-negative integer rounded to Prec significant digits
RoundPrec(n) ==
  LET e == Excess(n)
      p == Pow10(e)
  IN  HalfEven(n \div p, n % p, p) * p

\* int/Decimal + Decimal under the context: the exact sum, rounded
DecimalAdd(x, y) == RoundPrec(x + y)

ScoreOne == Pow10(2 * Prec)

\* least k with a * 10^k >= 10^(Prec-1) * b
RECURSIVE Shift(_, _)
Shift(a, b) == IF a >= Pow10(Prec - 1) * b THEN 0 ELSE 1 + Shift(10 * a, b)

\* Decimal a / Decimal b (0 < a, 0 < b) under the context, in units of 1/ScoreOne
DecimalDiv(a, b) ==
  LET k == Shift(a, b)
      n == a * Pow10(k)
  IN  HalfEven(n \div b, n % b, b) * Pow10(2 * Prec - k)

LnUnits ==
  << 0, 693, 1100, 1390, 1610, 1790, 1950, 2080, 2200, 2300, 2400, 2480, 2560, 2640, 2710, 2770,
     2830, 2890, 2940, 3000, 3040, 3090, 3140, 3180, 3220, 3260, 3300, 3330, 3370, 3400, 3430, 3470,
     3500, 3530, 3560, 3580, 3610, 3640, 3660, 3690, 3710, 3740, 3760, 3780, 3810, 3830, 3850, 3870,
     3890, 3910, 3930, 3950, 3970, 3990, 4010, 4030, 4040, 4060, 4080, 4090, 4110, 4130, 4140, 4160,
     4170, 4190, 4200, 4220, 4230, 4250, 4260, 4280, 4290, 4300, 4320, 4330, 4340, 4360, 4370, 4380,
     4390, 4410, 4420, 4430, 4440, 4450, 4470, 4480, 4490, 4500, 4510, 4520, 4530, 4540, 4550, 4560,
     4570, 4580, 4600, 4610, 4620, 4620, 4630, 4640, 4650, 4660, 4670, 4680, 4690, 4700, 4710, 4720,
     4730, 4740, 4740, 4750, 4760, 4770, 4780, 4790, 4800, 4800, 4810, 4820, 4830, 4840, 4840, 4850,
     4860, 4870, 4880, 4880, 4890, 4900, 4910, 4910, 4920, 4930, 4930, 4940, 4950, 4960, 4960, 4970,
     4980, 4980, 4990, 5000, 5000, 5010, 5020, 5020, 5030, 5040, 5040, 5050, 5060, 5060, 5070, 5080,
     5080, 5090, 5090, 5100, 5110, 5110, 5120, 5120, 5130, 5140, 5140, 5150, 5150, 5160, 5160, 5170,
     5180, 5180, 5190, 5190, 5200, 5200, 5210, 5210, 5220, 5230, 5230, 5240, 5240, 5250, 5250, 5260,
     5260, 5270, 5270, 5280, 5280, 5290, 5290, 5300, 5300, 5310, 5310, 5320, 5320, 5330, 5330, 5340,
     5340, 5350, 5350, 5360, 5360, 5370, 5370, 5380, 5380, 5380, 5390, 5390, 5400, 5400, 5410, 5410,
     5420, 5420, 5420, 5430, 5430, 5440, 5440, 5450, 5450, 5460, 5460, 5460, 5470, 5470, 5480, 5480,
     5480, 5490, 5490, 5500, 5500, 5510, 5510, 5510, 5520, 5520, 5530, 5530, 5530, 5540, 5540, 5550,
     5550, 5550, 5560, 5560, 5560, 5570, 5570, 5580, 5580, 5580, 5590, 5590, 5590, 5600, 5600, 5610,
     5610, 5610, 5620, 5620, 5620, 5630, 5630, 5630, 5640, 5640, 5650, 5650, 5650, 5660, 5660, 5660,
     5670, 5670, 5670, 5680, 5680, 5680, 5690, 5690, 5690, 5700, 5700, 5700, 5710, 5710, 5710, 5720,
     5720, 5720, 5730, 5730, 5730, 5740, 5740, 5740, 5750, 5750, 5750, 5760, 5760, 5760, 5770, 5770,
     5770, 5770, 5780, 5780, 5780, 5790, 5790, 5790, 5800, 5800, 5800, 5810, 5810, 5810, 5810, 5820,
     5820, 5820, 5830, 5830, 5830, 5830, 5840, 5840, 5840, 5850, 5850, 5850, 5860, 5860, 5860, 5860,
     5870, 5870, 5870, 5870, 5880, 5880, 5880, 5890, 5890, 5890, 5890, 5900, 5900, 5900, 5910, 5910,
     5910, 5910, 5920, 5920, 5920, 5920, 5930, 5930, 5930, 5930, 5940, 5940, 5940, 5950, 5950, 5950,
     5950, 5960, 5960, 5960, 5960, 5970, 5970, 5970, 5970, 5980, 5980, 5980, 5980, 5990, 5990, 5990,
     5990, 6000, 6000, 6000, 6000, 6010, 6010, 6010, 6010, 6020, 6020, 6020, 6020, 6030, 6030, 6030,
     6030, 6040, 6040, 6040, 6040, 6050, 6050, 6050, 6050, 6050, 6060, 6060, 6060, 6060, 6070, 6070,
     6070, 6070, 6080, 6080, 6080, 6080, 6080, 6090, 6090, 6090, 6090, 6100, 6100, 6100, 6100, 6100,
     6110, 6110, 6110, 6110, 6120, 6120, 6120, 6120, 6120, 6130, 6130, 6130, 6130, 6140, 6140, 6140,
     6140, 6140, 6150, 6150, 6150, 6150, 6150, 6160, 6160, 6160, 6160, 6170, 6170, 6170, 6170, 6170,
     6180, 6180, 6180, 6180, 6180, 6190, 6190, 6190, 6190, 6190, 6200, 6200, 6200, 6200, 6200, 6210,
     6210, 6210, 6210, 6210, 6220, 6220, 6220, 6220, 6220, 6230, 6230, 6230, 6230, 6230, 6240, 6240,
     6240, 6240, 6240, 6250, 6250, 6250, 6250, 6250, 6260, 6260, 6260, 6260, 6260, 6270, 6270, 6270,
     6270, 6270, 6270, 6280, 6280, 6280, 6280, 6280, 6290, 6290, 6290, 6290, 6290, 6300, 6300, 6300,
     6300, 6300, 6300, 6310, 6310, 6310, 6310, 6310, 6320, 6320, 6320, 6320, 6320, 6320, 6330, 6330,
     6330, 6330, 6330, 6340, 6340, 6340, 6340, 6340, 6340, 6350, 6350, 6350, 6350, 6350, 6350, 6360,
     6360, 6360, 6360, 6360, 6360, 6370, 6370, 6370, 6370, 6370, 6380, 6380, 6380, 6380, 6380, 6380,
     6390, 6390, 6390, 6390, 6390, 6390, 6400, 6400, 6400, 6400, 6400, 6400, 6410, 6410, 6410, 6410,
     6410, 6410, 6420, 6420, 6420, 6420, 6420, 6420, 6420, 6430, 6430, 6430, 6430, 6430, 6430, 6440,
     6440, 6440, 6440, 6440, 6440, 6450, 6450, 6450, 6450, 6450, 6450, 6460, 6460, 6460, 6460, 6460,
     6460, 6460, 6470, 6470, 6470, 6470, 6470, 6470, 6480, 6480, 6480, 6480, 6480, 6480, 6480, 6490,
     6490, 6490, 6490, 6490, 6490, 6500, 6500, 6500, 6500, 6500, 6500, 6500, 6510, 6510, 6510, 6510,
     6510, 6510, 6510, 6520, 6520, 6520, 6520, 6520, 6520, 6530, 6530, 6530, 6530, 6530, 6530, 6530,
     6540, 6540, 6540, 6540, 6540, 6540, 6540, 6550, 6550, 6550, 6550, 6550, 6550, 6550, 6560, 6560,
     6560, 6560, 6560, 6560, 6560, 6570, 6570, 6570, 6570, 6570, 6570, 6570, 6580, 6580, 6580, 6580,
     6580, 6580, 6580, 6580, 6590, 6590, 6590, 6590, 6590, 6590, 6590, 6600, 6600, 6600, 6600, 6600,
     6600, 6600, 6610, 6610, 6610, 6610, 6610, 6610, 6610, 6610, 6620, 6620, 6620, 6620, 6620, 6620,
     6620, 6630, 6630, 6630, 6630, 6630, 6630, 6630, 6630, 6640, 6640, 6640, 6640, 6640, 6640, 6640,
     6650, 6650, 6650, 6650, 6650, 6650, 6650, 6650, 6660, 6660, 6660, 6660, 6660, 6660, 6660, 6660,
     6670, 6670, 6670, 6670, 6670, 6670, 6670, 6670, 6680, 6680, 6680, 6680, 6680, 6680, 6680, 6680,
     6690, 6690, 6690, 6690, 6690, 6690, 6690, 6690, 6700, 6700, 6700, 6700, 6700, 6700, 6700, 6700,
     6710, 6710, 6710, 6710, 6710, 6710, 6710, 6710, 6720, 6720, 6720, 6720, 6720, 6720, 6720, 6720,
     6730, 6730, 6730, 6730, 6730, 6730, 6730, 6730, 6730, 6740, 6740, 6740, 6740, 6740, 6740, 6740,
     6740, 6750, 6750, 6750, 6750, 6750, 6750, 6750, 6750, 6750, 6760, 6760, 6760, 6760, 6760, 6760,
     6760, 6760, 6770, 6770, 6770, 6770, 6770, 6770, 6770, 6770, 6770, 6780, 6780, 6780, 6780, 6780,
     6780, 6780, 6780, 6780, 6790, 6790, 6790, 6790, 6790, 6790, 6790, 6790, 6790, 6800, 6800, 6800,
     6800, 6800, 6800, 6800, 6800, 6800, 6810, 6810, 6810, 6810, 6810, 6810, 6810, 6810, 6810, 6820,
     6820, 6820, 6820, 6820, 6820, 6820, 6820, 6820, 6830, 6830, 6830, 6830, 6830, 6830, 6830, 6830,
     6830, 6840, 6840, 6840, 6840, 6840, 6840, 6840, 6840, 6840, 6840, 6850, 6850, 6850, 6850, 6850,
     6850, 6850, 6850, 6850, 6860, 6860, 6860, 6860, 6860, 6860, 6860, 6860, 6860, 6860, 6870, 6870,
     6870, 6870, 6870, 6870, 6870, 6870, 6870, 6880, 6880, 6880, 6880, 6880, 6880, 6880, 6880, 6880,
     6880, 6890, 6890, 6890, 6890, 6890, 6890, 6890, 6890, 6890, 6890, 6900, 6900, 6900, 6900, 6900,
     6900, 6900, 6900, 6900, 6900, 6910, 6910 >>
LnTens ==
  << 6910, 6920, 6930, 6940, 6950, 6960, 6970, 6980, 6980, 6990, 7000, 7010, 7020, 7030, 7040, 7050,
     7060, 7060, 7070, 7080, 7090, 7100, 7110, 7110, 7120, 7130, 7140, 7150, 7150, 7160, 7170, 7180,
     7190, 7190, 7200, 7210, 7220, 7220, 7230, 7240, 7240, 7250, 7260, 7270, 7270, 7280, 7290, 7290,
     7300, 7310, 7310, 7320, 7330, 7330, 7340, 7350, 7350, 7360, 7370, 7370, 7380, 7380, 7390, 7400,
     7400, 7410, 7410, 7420, 7430, 7430, 7440, 7440, 7450, 7460, 7460, 7470, 7470, 7480, 7480, 7490,
     7500, 7500, 7510, 7510, 7520, 7520, 7530, 7530, 7540, 7540, 7550, 7550, 7560, 7570, 7570, 7580,
     7580, 7590, 7590, 7600, 7600, 7610, 7610, 7620, 7620, 7630, 7630, 7640, 7640, 7640, 7650, 7650,
     7660, 7660, 7670, 7670, 7680, 7680, 7690, 7690, 7700, 7700, 7710, 7710, 7710, 7720, 7720, 7730,
     7730, 7740, 7740, 7750, 7750, 7750, 7760, 7760, 7770, 7770, 7770, 7780, 7780, 7790, 7790, 7800,
     7800, 7800, 7810, 7810, 7820, 7820, 7820, 7830, 7830, 7840, 7840, 7840, 7850, 7850, 7860, 7860,
     7860, 7870, 7870, 7870, 7880, 7880, 7890, 7890, 7890, 7900, 7900, 7900, 7910, 7910, 7920, 7920,
     7920, 7930, 7930, 7930, 7940, 7940, 7940, 7950, 7950, 7960, 7960, 7960, 7970, 7970, 7970, 7980,
     7980, 7980, 7990, 7990, 7990, 8000, 8000, 8000, 8010, 8010, 8010, 8020, 8020, 8020, 8030, 8030,
     8030, 8040, 8040, 8040, 8050, 8050, 8050, 8060, 8060, 8060, 8060, 8070, 8070, 8070, 8080, 8080,
     8080, 8090, 8090, 8090, 8100, 8100, 8100, 8100, 8110, 8110, 8110, 8120, 8120, 8120, 8130, 8130,
     8130, 8130, 8140, 8140, 8140, 8150, 8150, 8150, 8150, 8160, 8160, 8160, 8170, 8170, 8170, 8170,
     8180, 8180, 8180, 8190, 8190, 8190, 8190, 8200, 8200, 8200, 8210, 8210, 8210, 8210, 8220, 8220,
     8220, 8220, 8230, 8230, 8230, 8230, 8240, 8240, 8240, 8250, 8250, 8250, 8250, 8260, 8260, 8260,
     8260, 8270, 8270, 8270, 8270, 8280, 8280, 8280, 8280, 8290, 8290, 8290, 8290, 8300, 8300, 8300,
     8300, 8310, 8310, 8310, 8310, 8320, 8320, 8320, 8320, 8330, 8330, 8330, 8330, 8340, 8340, 8340,
     8340, 8350, 8350, 8350, 8350, 8350, 8360, 8360, 8360, 8360, 8370, 8370, 8370, 8370, 8380, 8380,
     8380, 8380, 8380, 8390, 8390, 8390, 8390, 8400, 8400, 8400, 8400, 8410, 8410, 8410, 8410, 8410,
     8420, 8420, 8420, 8420, 8430, 8430, 8430, 8430, 8430, 8440, 8440, 8440, 8440, 8440, 8450, 8450,
     8450, 8450, 8460, 8460, 8460, 8460, 8460, 8470, 8470, 8470, 8470, 8470, 8480, 8480, 8480, 8480,
     8480, 8490, 8490, 8490, 8490, 8490, 8500, 8500, 8500, 8500, 8510, 8510, 8510, 8510, 8510, 8520,
     8520, 8520, 8520, 8520, 8530, 8530, 8530, 8530, 8530, 8540, 8540, 8540, 8540, 8540, 8540, 8550,
     8550, 8550, 8550, 8550, 8560, 8560, 8560, 8560, 8560, 8570, 8570, 8570, 8570, 8570, 8580, 8580,
     8580, 8580, 8580, 8580, 8590, 8590, 8590, 8590, 8590, 8600, 8600, 8600, 8600, 8600, 8610, 8610,
     8610, 8610, 8610, 8610, 8620, 8620, 8620, 8620, 8620, 8630, 8630, 8630, 8630, 8630, 8630, 8640,
     8640, 8640, 8640, 8640, 8640, 8650, 8650, 8650, 8650, 8650, 8660, 8660, 8660, 8660, 8660, 8660,
     8670, 8670, 8670, 8670, 8670, 8670, 8680, 8680, 8680, 8680, 8680, 8680, 8690, 8690, 8690, 8690,
     8690, 8690, 8700, 8700, 8700, 8700, 8700, 8700, 8710, 8710, 8710, 8710, 8710, 8710, 8720, 8720,
     8720, 8720, 8720, 8720, 8730, 8730, 8730, 8730, 8730, 8730, 8740, 8740, 8740, 8740, 8740, 8740,
     8750, 8750, 8750, 8750, 8750, 8750, 8750, 8760, 8760, 8760, 8760, 8760, 8760, 8770, 8770, 8770,
     8770, 8770, 8770, 8770, 8780, 8780, 8780, 8780, 8780, 8780, 8790, 8790, 8790, 8790, 8790, 8790,
     8790, 8800, 8800, 8800, 8800, 8800, 8800, 8810, 8810, 8810, 8810, 8810, 8810, 8810, 8820, 8820,
     8820, 8820, 8820, 8820, 8820, 8830, 8830, 8830, 8830, 8830, 8830, 8830, 8840, 8840, 8840, 8840,
     8840, 8840, 8850, 8850, 8850, 8850, 8850, 8850, 8850, 8860, 8860, 8860, 8860, 8860, 8860, 8860,
     8870, 8870, 8870, 8870, 8870, 8870, 8870, 8870, 8880, 8880, 8880, 8880, 8880, 8880, 8880, 8890,
     8890, 8890, 8890, 8890, 8890, 8890, 8900, 8900, 8900, 8900, 8900, 8900, 8900, 8910, 8910, 8910,
     8910, 8910, 8910, 8910, 8910, 8920, 8920, 8920, 8920, 8920, 8920, 8920, 8930, 8930, 8930, 8930,
     8930, 8930, 8930, 8930, 8940, 8940, 8940, 8940, 8940, 8940, 8940, 8950, 8950, 8950, 8950, 8950,
     8950, 8950, 8950, 8960, 8960, 8960, 8960, 8960, 8960, 8960, 8960, 8970, 8970, 8970, 8970, 8970,
     8970, 8970, 8970, 8980, 8980, 8980, 8980, 8980, 8980, 8980, 8980, 8990, 8990, 8990, 8990, 8990,
     8990, 8990, 8990, 9000, 9000, 9000, 9000, 9000, 9000, 9000, 9000, 9010, 9010, 9010, 9010, 9010,
     9010, 9010, 9010, 9020, 9020, 9020, 9020, 9020, 9020, 9020, 9020, 9030, 9030, 9030, 9030, 9030,
     9030, 9030, 9030, 9030, 9040, 9040, 9040, 9040, 9040, 9040, 9040, 9040, 9050, 9050, 9050, 9050,
     9050, 9050, 9050, 9050, 9050, 9060, 9060, 9060, 9060, 9060, 9060, 9060, 9060, 9070, 9070, 9070,
     9070, 9070, 9070, 9070, 9070, 9070, 9080, 9080, 9080, 9080, 9080, 9080, 9080, 9080, 9080, 9090,
     9090, 9090, 9090, 9090, 9090, 9090, 9090, 9090, 9100, 9100, 9100, 9100, 9100, 9100, 9100, 9100,
     9100, 9110, 9110, 9110, 9110, 9110, 9110, 9110, 9110, 9110, 9120, 9120, 9120, 9120, 9120, 9120,
     9120, 9120, 9120, 9130, 9130, 9130, 9130, 9130, 9130, 9130, 9130, 9130, 9140, 9140, 9140, 9140,
     9140, 9140, 9140, 9140, 9140, 9150, 9150, 9150, 9150, 9150, 9150, 9150, 9150, 9150, 9150, 9160,
     9160, 9160, 9160, 9160, 9160, 9160, 9160, 9160, 9170, 9170, 9170, 9170, 9170, 9170, 9170, 9170,
     9170, 9170, 9180, 9180, 9180, 9180, 9180, 9180, 9180, 9180, 9180, 9190, 9190, 9190, 9190, 9190,
     9190, 9190, 9190, 9190, 9190, 9200, 9200, 9200, 9200, 9200, 9200, 9200, 9200, 9200, 9200, 9210,
     9210, 9210, 9210, 9210 >>

\* Decimal(n).ln() under the context, in thousandths, for the values a raw
\* score takes: 1..999 and the multiples of 10 in 1000..9990
DecimalLn(n) == 
  IF n < Pow10(Prec) THEN LnUnits[n] ELSE LnTens[(n \div 10) - (Pow10(Prec - 1) - 1)]

-----------------------------------------------------------------------------
\* ---- load_links ----
\* int(link['num']) of a string of decimal digits
RECURSIVE IntOf(_)
IntOf(digits) ==
  IF digits = << >> THEN 0
  ELSE 10 * IntOf(SubSeq(digits, 1, Len(digits) - 1)) + digits[Len(digits)]

RECURSIVE StripAll(_)
StripAll(mf2) == IF StartsWithU(mf2) THEN StripAll(Tail(mf2)) ELSE mf2

\* variant of Mf2Of: every leading 'u-' is cut off
Mf2OfStripAll(link) ==
  StripAll(IF "mf2_class" \in DOMAIN link THEN link.mf2_class ELSE << "other" >>)

\* link.get('mf2_class', 'other') with a leading 'u-' cut off
Mf2Of(link) ==
  LET mf2 == IF "mf2_class" \in DOMAIN link THEN link.mf2_class ELSE << "other" >>
  IN  IF StartsWithU(mf2) THEN Tail(mf2) ELSE mf2

\* g[a][b][direction][mf2] += num on the nested defaultdicts
AddCount(g, a, b, direction, mf2, num) ==
  LET row    == DictGet(g, a, EmptyDict)
      stats  == DictGet(row, b, EmptyDict)
      counts == DictGet(stats, direction, EmptyDict)
      old    == DictGet(counts, mf2, 0)
  IN  DictSet(g, a,
        DictSet(row, b,
          DictSet(stats, direction,
            DictSet(counts, mf2, old + num))))

\* variant of AddTotal: the count is assigned, not added
AddTotalAssign(d, k, num) == DictSet(d, k, num)

\* d[k] += num on a defaultdict(int)
AddTotal(d, k, num) == DictSet(d, k, DictGet(d, k, 0) + num)

\* links[from_domain][to_domain]['out'][mf2] += num
LinkOut(g, from_domain, to_domain, mf2, num) ==
  AddCount(g, from_domain, to_domain, "out", mf2, num)

\* variant of LinkIn: the mirrored count goes to the edge it came from
LinkInSwapped(g, from_domain, to_domain, mf2, num) ==
  AddCount(g, from_domain, to_domain, "in", mf2, num)

\* links[to_domain][from_domain]['in'][mf2] += num
LinkIn(g, from_domain, to_domain, mf2, num) ==
  AddCount(g, to_domain, from_domain, "in", mf2, num)

\* one iteration of the loop over links_in
LoadLink(link) ==
  /\ pc = "load"
  /\ Len(links_in) < MaxLinks
  /\ LET from_domain == link.from_domain
         to_domain   == link.to_domain
         num         == IntOf(link.num)
         mf2         == Mf2Of(link)
     IN  /\ from_domains' = from_domains \cup {from_domain}
         /\ links' = LinkIn(LinkOut(links, from_domain, to_domain, mf2, num),
                            from_domain, to_domain, mf2, num)
         /\ out_counts' = AddTotal(out_counts, from_domain, num)
         /\ in_counts' = AddTotal(in_counts, to_domain, num)
  /\ links_in' = Append(links_in, link)
  /\ UNCHANGED << pc, error, sites, extras, todo, full, base, internal, domains, files >>

-----------------------------------------------------------------------------
\* ---- make_full: scoring ----
HasWeight(mf2) == Join(mf2) \in DOMAIN MF2_WEIGHTS

\* the inner loop over counts.items(), folded into the running score
RECURSIVE ScoreCounts(_, _, _)
ScoreCounts(counts, direction, score) ==
  IF counts = << >> THEN score
  ELSE ScoreCounts(Tail(counts), direction,
         DecimalAdd(score, Head(counts).v * MF2_WEIGHTS[Join(Head(counts).k)]
                             * DIRECTION_WEIGHTS[direction]))

\* the loop over stats.items()
RECURSIVE ScoreStats(_, _)
ScoreStats(stats, score) ==
  IF stats = << >> THEN score
  ELSE ScoreStats(Tail(stats), ScoreCounts(Head(stats).v, Head(stats).k, score))

RawScore(stats) == ScoreStats(stats, 0)

\* every class met while scoring a domain's edges has a weight
RowHasWeights(row) ==
  \A i \in 1..Len(row) : \A j \in 1..Len(row[i].v) :
    \A n \in 1..Len(row[i].v[j].v) : HasWeight(row[i].v[j].v[n].k)

\* max_score after the first loop: 0 (still the int) unless some score beat it
RECURSIVE MaxScore(_, _)
MaxScore(row, max_score) ==
  IF row = << >> THEN max_score
  ELSE LET score == RawScore(Head(row).v)
       IN  MaxScore(Tail(row), IF score > max_score THEN score ELSE max_score)

\* variant of Normalize: the quotient is taken the other way round
NormalizeInverted(score, max_score) ==
  IF score <= 1 THEN 0
  ELSE IF DecimalLn(max_score) = 0 THEN ScoreOne
  ELSE DecimalDiv(DecimalLn(max_score), DecimalLn(score))

Normalize(score, max_score) ==
  IF score <= 1 THEN 0
  ELSE IF DecimalLn(max_score) = 0 THEN ScoreOne
  ELSE DecimalDiv(DecimalLn(score), DecimalLn(max_score))

\* the body of the loop over links.values() for one domain; stats['score']
\* becomes the last entry of each stats dict
ScoreRow(row) ==
  LET max_score == MaxScore(row, 0)
  IN  [i \in 1..Len(row) |->
        [k |-> row[i].k,
         v |-> DictSet(row[i].v, "score", Normalize(RawScore(row[i].v), max_score))]]

\* the exception the body raises for this domain, "none" if it completes:
\* MF2_WEIGHTS[mf2] of an unknown class, or .ln() of the int 0
RowError(row) ==
  IF ~RowHasWeights(row) THEN "KeyError"
  ELSE IF MaxScore(row, 0) = 0 THEN "AttributeError"
  ELSE "none"

\* the first exception of the scoring loop, in the order of links.values()
RECURSIVE ScoreError(_)
ScoreError(g) ==
  IF g = << >> THEN "none"
  ELSE IF RowError(Head(g).v) # "none" THEN RowError(Head(g).v)
  ELSE ScoreError(Tail(g))

ScoreLinks(g) == [i \in 1..Len(g) |-> [k |-> g[i].k, v |-> ScoreRow(g[i].v)]]

-----------------------------------------------------------------------------
\* ---- json.loads ----
\* A JSON text is the sequence of its characters.  The values built are
\* None, str and dict; ParseFail stands for JSONDecodeError.
ParseFail == [ok |-> FALSE]
ParseOk(v, rest) == [ok |-> TRUE, v |-> v, rest |-> rest]

JsonNone == [t |-> "None"]
JsonStr(s) == [t |-> "str", s |-> s]
JsonDict(m) == [t |-> "dict", m |-> m]

Quote == "\""

\* a string literal at the start of s (no escapes)
ParseString(s) ==
  IF s = << >> \/ Head(s) # Quote THEN ParseFail
  ELSE LET closing == {j \in 2..Len(s) : s[j] = Quote}
       IN  IF closing = {} THEN ParseFail
           ELSE LET j == CHOOSE j \in closing : \A n \in closing : j <= n
                IN  ParseOk(JsonStr(SubSeq(s, 2, j - 1)), SubSeq(s, j + 1, Len(s)))

RECURSIVE ParseValue(_)
RECURSIVE ParseMembers(_, _)
ParseValue(s) ==
  IF s = << >> THEN ParseFail
  ELSE IF Head(s) = "{" THEN
    IF Len(s) >= 2 /\ s[2] = "}" THEN ParseOk(JsonDict(EmptyDict), SubSeq(s, 3, Len(s)))
    ELSE ParseMembers(Tail(s), EmptyDict)
  ELSE IF Head(s) = Quote THEN ParseString(s)
  ELSE IF Len(s) >= 4 /\ SubSeq(s, 1, 4) = << "n", "u", "l", "l" >>
    THEN ParseOk(JsonNone, SubSeq(s, 5, Len(s)))
  ELSE ParseFail

\* the members of an object after its '{' or after a ','
ParseMembers(s, m) ==
  LET key == ParseString(s)
  IN  IF ~key.ok \/ key.rest = << >> \/ Head(key.rest) # ":" THEN ParseFail
      ELSE LET val == ParseValue(Tail(key.rest))
           IN  IF ~val.ok \/ val.rest = << >> THEN ParseFail
               ELSE LET m2 == DictSet(m, key.v.s, val.v)
                    IN  IF Head(val.rest) = "}" THEN ParseOk(JsonDict(m2), Tail(val.rest))
                        ELSE IF Head(val.rest) = "," THEN ParseMembers(Tail(val.rest), m2)
                        ELSE ParseFail

\* json.loads raises unless one value spans the whole text
JsonLoads(s) ==
  LET r == ParseValue(s)
  IN  IF r.ok /\ r.rest = << >> THEN r ELSE ParseFail

\* bool(v) for the values above
Truthy(v) ==
  IF v.t = "None" THEN FALSE
  ELSE IF v.t = "str" THEN v.s # << >>
  ELSE v.m # << >>

-----------------------------------------------------------------------------
\* ---- make_full: emitting ----
\* all_extra[domain] after the loops over extras: later records win per field
RECURSIVE AllExtraOf(_, _, _)
AllExtraOf(records, domain, acc) ==
  IF records = << >> THEN acc
  ELSE AllExtraOf(Tail(records), domain,
         IF Head(records).domain = domain THEN Head(records) @@ acc ELSE acc)

RECURSIVE Flatten(_)
Flatten(seqs) == IF seqs = << >> THEN << >> ELSE Head(seqs) \o Flatten(Tail(seqs))

\* the lexicographic order of the domain names, for sorted()
DomainOrder == << "a.com", "b.com", "c.com" >>

SortedDomains(S) == SelectSeq(DomainOrder, LAMBDA d : d \in S)

SiteDomains(ss) == {ss[i].domain : i \in 1..Len(ss)}

\* more_sites: stubs for the from domains the site list does not have
MoreSites(ss, froms) ==
  LET more == SortedDomains(froms \ SiteDomains(ss))
  IN  [i \in 1..Len(more) |-> [domain |-> more[i]]]

ScoreOf(stats) == DictGet(stats, "score", 0)

\* variant of SortedByScore: an item goes before the items of its own score
RECURSIVE SortedByScoreUnstable(_, _)
SortedByScoreUnstable(items, done) ==
  IF items = << >> THEN done
  ELSE LET x == Head(items)
           p == Cardinality({i \in 1..Len(done) : ScoreOf(done[i].v) > ScoreOf(x.v)})
       IN  SortedByScoreUnstable(Tail(items),
             SubSeq(done, 1, p) \o << x >> \o SubSeq(done, p + 1, Len(done)))

\* sorted(items, key=score, reverse=True): a stable descending sort, here by
\* inserting each item behind the items that do not score less
RECURSIVE SortedByScore(_, _)
SortedByScore(items, done) ==
  IF items = << >> THEN done
  ELSE LET x == Head(items)
           p == Cardinality({i \in 1..Len(done) : ScoreOf(done[i].v) >= ScoreOf(x.v)})
       IN  SortedByScore(Tail(items),
             SubSeq(done, 1, p) \o << x >> \o SubSeq(done, p + 1, Len(done)))

\* the site after site.update(all_extra[domain])
Merged(site, xs) == AllExtraOf(Flatten(xs), site.domain, << >>) @@ site

HcardText(site) == IF "hcard" \in DOMAIN site THEN site.hcard ELSE << "{", "}" >>

\* the record yielded for a merged site whose hcard parses
FullRecord(site, g, outs, ins) ==
  LET parsed == JsonLoads(HcardText(site)).v
  IN  [domain    |-> site.domain,
       hcard     |-> IF Truthy(parsed) THEN parsed ELSE JsonDict(EmptyDict),
       links_out |-> DictGet(outs, site.domain, 0),
       links_in  |-> DictGet(ins, site.domain, 0),
       links     |-> SortedByScore(DictGet(g, site.domain, EmptyDict), << >>)]

-----------------------------------------------------------------------------
\* ---- make_base, make_internal ----
\* variant of BaseRecord: a list of exactly MAX_BASE_LINKS links is cut too
BaseRecordOffByOne(site) ==
  IF Len(site.links) >= MAX_BASE_LINKS
    THEN [links_truncated |-> TRUE]
           @@ [site EXCEPT !.links = SubSeq(site.links, 1, MAX_BASE_LINKS)]
    ELSE site

\* the loop body of make_base on the deep copy of one site
BaseRecord(site) ==
  IF Len(site.links) > MAX_BASE_LINKS
    THEN [links_truncated |-> TRUE]
           @@ [site EXCEPT !.links = SubSeq(site.links, 1, MAX_BASE_LINKS)]
    ELSE site

make_base(fullv) == [i \in 1..Len(fullv) |-> BaseRecord(fullv[i])]

\* variant of InternalRecord: the links are filtered by the site's own domain
InternalRecordBySite(site, ds) ==
  [site EXCEPT !.links = SelectSeq(site.links, LAMBDA e : site.domain \in ds)]

\* the loop body of make_internal on the deep copy of one kept site
InternalRecord(site, ds) ==
  [site EXCEPT !.links = SelectSeq(site.links, LAMBDA e : e.k \in ds)]

make_internal(fullv, ds) ==
  LET kept == SelectSeq(fullv, LAMBDA site : site.domain \in ds)
  IN  [i \in 1..Len(kept) |-> InternalRecord(kept[i], ds)]

\* json_dump: one file per obj['domain'], a later obj overwrites the file
RECURSIVE json_dump(_, _)
json_dump(tree, objs) ==
  IF objs = << >> THEN tree
  ELSE json_dump((Head(objs).domain :> Head(objs)) @@ tree, Tail(objs))

-----------------------------------------------------------------------------
\* ---- inputs ----
SeqsUpTo(S, n) == UNION {[1..m -> S] : m \in 0..n}

FromDomains == {"a.com", "b.com"}

Mf2Inputs == { << "u-", "in-reply-to" >>, << "u-", "u-", "like-of" >> }

NumInputs == { << 0 >>, << 1 >>, << 6, 7 >> }

\* link records, with and without the optional mf2_class
LinkInputs ==
  [from_domain : FromDomains, to_domain : Domains, num : NumInputs]
    \cup [from_domain : FromDomains, to_domain : Domains, num : NumInputs,
          mf2_class : Mf2Inputs]

\* the link records of the runs that vary the site list
FewLinkInputs ==
  [from_domain : FromDomains, to_domain : {"a.com", "c.com"}, num : {<< 6, 7 >>}]

HcardObject == << "{", Quote, "n", Quote, ":", Quote, "x", Quote, "}" >>
HcardCut == << "{", Quote, "n", Quote >>

HcardInputs == { << "{", "}" >>, HcardObject, << "n", "u", "l", "l" >>, HcardCut }

SiteInputs ==
  [domain : {"a.com", "c.com"}]
    \cup [domain : {"a.com", "c.com"}, hcard : HcardInputs]

\* the site list of the runs that vary the link records
GraphSiteLists == { << [domain |-> "a.com"] >> }

\* extra files of one record each
ExtraInputs ==
  SeqsUpTo({<< r >> : r \in [domain : {"a.com"}, hcard : {HcardObject, HcardCut}]},
           MaxExtras)

\* full lists for make_base and make_internal on their own: every edge one
\* outgoing 'other' link, so every score is 1
ViewDomains == {"1", "2", "3"}

ViewStats ==
  << [k |-> "out", v |-> << [k |-> << "other" >>, v |-> 1] >>],
     [k |-> "score", v |-> ScoreOne] >>

LinksOfSize(n) == [i \in 1..n |-> [k |-> ToString(i), v |-> ViewStats]]

LinkSizes == {0, 2, MAX_BASE_LINKS, MAX_BASE_LINKS + 1}

ViewRecords ==
  {[domain |-> d, hcard |-> JsonDict(EmptyDict), links_out |-> n, links_in |-> 0,
    links |-> LinksOfSize(n)] : d \in ViewDomains, n \in LinkSizes}

-----------------------------------------------------------------------------
\* ---- actions ----
\* the state once the input files are read
InitWith(siteLists, extraLists) ==
  /\ pc = "load"
  /\ error = "none"
  /\ sites \in siteLists
  /\ extras \in extraLists
  /\ links = EmptyDict
  /\ from_domains = {}
  /\ out_counts = EmptyDict
  /\ in_counts = EmptyDict
  /\ links_in = << >>
  /\ todo = << >>
  /\ full = << >>
  /\ base = << >>
  /\ internal = << >>
  /\ domains = {}
  /\ files = [full |-> << >>, base |-> << >>, internal |-> << >>]

Abort(exception) ==
  /\ pc' = "aborted"
  /\ error' = exception
  /\ UNCHANGED << sites, extras, links, from_domains, out_counts, in_counts,
                  links_in, todo, full, base, internal, domains, files >>

\* make_full from the end of load_links up to the loop that emits the sites
Score ==
  /\ pc = "load"
  /\ IF ScoreError(links) # "none"
       THEN Abort(ScoreError(links))
       ELSE /\ links' = ScoreLinks(links)
            /\ todo' = sites \o MoreSites(sites, from_domains)
            /\ pc' = "emit"
            /\ UNCHANGED << error, sites, extras, from_domains, out_counts,
                            in_counts, links_in, full, base, internal, domains, files >>

\* one iteration of the loop over sites + more_sites
EmitSite ==
  /\ pc = "emit"
  /\ todo # << >>
  /\ LET site == Merged(Head(todo), extras)
     IN  IF ~JsonLoads(HcardText(site)).ok
           THEN Abort("JSONDecodeError")
           ELSE /\ full' = Append(full, FullRecord(site, links, out_counts, in_counts))
                /\ todo' = Tail(todo)
                /\ UNCHANGED << pc, error, sites, extras, links, from_domains,
                                out_counts, in_counts, links_in, base, internal,
                                domains, files >>

\* json_dump('full', full), once make_full is exhausted
DumpFull ==
  /\ pc = "emit"
  /\ todo = << >>
  /\ files' = [files EXCEPT !.full = json_dump(@, full)]
  /\ pc' = "base"
  /\ UNCHANGED << error, sites, extras, links, from_domains, out_counts,
                  in_counts, links_in, todo, full, base, internal, domains >>

\* json_dump('base', make_base(full))
MakeBase ==
  /\ pc = "base"
  /\ base' = make_base(full)
  /\ files' = [files EXCEPT !.base = json_dump(@, make_base(full))]
  /\ pc' = "domains"
  /\ UNCHANGED << error, sites, extras, links, from_domains, out_counts,
                  in_counts, links_in, todo, full, internal, domains >>

\* domains = set(s['domain'] for s in sites)
SetDomains ==
  /\ pc = "domains"
  /\ domains' = SiteDomains(sites)
  /\ pc' = "internal"
  /\ UNCHANGED << error, sites, extras, links, from_domains, out_counts,
                  in_counts, links_in, todo, full, base, internal, files >>

\* json_dump('internal', make_internal(full, domains))
MakeInternal ==
  /\ pc = "internal"
  /\ internal' = make_internal(full, domains)
  /\ files' = [files EXCEPT !.internal = json_dump(@, make_internal(full, domains))]
  /\ pc' = "done"
  /\ UNCHANGED << error, sites, extras, links, from_domains, out_counts,
                  in_counts, links_in, todo, full, base, domains >>

-----------------------------------------------------------------------------
\* ---- specifications ----
\* The whole run, over a wide choice of link records and a narrow one of sites.
Init == InitWith(GraphSiteLists, {<< >>})

Load == \E link \in LinkInputs : LoadLink(link)

Next ==
  \/ Load
  \/ Score
  \/ EmitSite
  \/ DumpFull
  \/ MakeBase
  \/ SetDomains
  \/ MakeInternal

Spec == Init /\ [][Next]_vars

\* The whole run, over a wide choice of sites and extras and a narrow one of
\* link records.
InitSites == InitWith(SeqsUpTo(SiteInputs, MaxSites), ExtraInputs)

LoadFew == \E link \in FewLinkInputs : LoadLink(link)

NextSites ==
  \/ LoadFew
  \/ Score
  \/ EmitSite
  \/ DumpFull
  \/ MakeBase
  \/ SetDomains
  \/ MakeInternal

SpecSites == InitSites /\ [][NextSites]_vars

\* make_base applied to full lists of its own, long link lists included.
InitViews(start, domainSets) ==
  /\ pc = start
  /\ error = "none"
  /\ sites = << >>
  /\ extras = << >>
  /\ links = EmptyDict
  /\ from_domains = {}
  /\ out_counts = EmptyDict
  /\ in_counts = EmptyDict
  /\ links_in = << >>
  /\ todo = << >>
  /\ full \in SeqsUpTo(ViewRecords, MaxRecords)
  /\ base = << >>
  /\ internal = << >>
  /\ domains \in domainSets
  /\ files = [full |-> << >>, base |-> << >>, internal |-> << >>]

InitBase == InitViews("base", {{}})

NextBase ==
  \/ MakeBase
  \/ SetDomains
  \/ MakeInternal

SpecBase == InitBase /\ [][NextBase]_vars

\* make_internal applied to full lists and domain sets of its own.
InitInternal == InitViews("internal", SUBSET ViewDomains)

NextInternal == MakeInternal

SpecInternal == InitInternal /\ [][NextInternal]_vars

-----------------------------------------------------------------------------
\* ---- properties ----
Range(s) == {s[i] : i \in 1..Len(s)}

AfterScoring == {"emit", "base", "domains", "internal", "done"}

\* the direction -> counts entries of a stats dict, its score left aside
CountsOf(stats) == SelectSeq(stats, LAMBDA e : e.k # "score")

Count(g, a, b, direction, mf2) ==
  DictGet(DictGet(CountsOf(DictGet(DictGet(g, a, EmptyDict), b, EmptyDict)),
                  direction, EmptyDict), mf2, 0)

ClassesIn(g) ==
  UNION {UNION {UNION {DictKeySet(e.v) : e \in Range(CountsOf(t.v))} :
                  t \in Range(r.v)} : r \in Range(g)}

RECURSIVE SumCounts(_)
SumCounts(counts) ==
  IF counts = << >> THEN 0 ELSE Head(counts).v + SumCounts(Tail(counts))

\* the sum, over the edges of a row, of all counts of one direction
RECURSIVE SumRow(_, _)
SumRow(row, direction) ==
  IF row = << >> THEN 0
  ELSE SumCounts(DictGet(CountsOf(Head(row).v), direction, EmptyDict))
         + SumRow(Tail(row), direction)

\* a link record's class is a key of the weight table, as it stands or with
\* one leading 'u-' taken off; an absent class counts as 'other'
InVocabulary(link) ==
  \/ "mf2_class" \notin DOMAIN link
  \/ Join(link.mf2_class) \in DOMAIN MF2_WEIGHTS
  \/ /\ Head(link.mf2_class) = "u-"
     /\ Join(Tail(link.mf2_class)) \in DOMAIN MF2_WEIGHTS

HasScore(stats) == DictHas(stats, "score")

RawOf(stats) == RawScore(CountsOf(stats))

\* the largest raw score among the edges of a scored row
MaxRaw(row) ==
  CHOOSE m \in {RawOf(row[i].v) : i \in 1..Len(row)} :
    \A i \in 1..Len(row) : RawOf(row[i].v) <= m

AllRecords == Range(full) \cup Range(base) \cup Range(internal)

Truncated(site) == "links_truncated" \in DOMAIN site /\ site.links_truncated = TRUE

Min(a, b) == IF a <= b THEN a ELSE b

\* C1: at every point of the aggregation and after it, for all domains A, B
\* and every class c, links[A][B]['out'][c] = links[B][A]['in'][c], an absent
\* entry counting as 0.
C1_Symmetry ==
  \A a \in Domains, b \in Domains : \A c \in ClassesIn(links) :
    Count(links, a, b, "out", c) = Count(links, b, a, "in", c)

\* two records of the same self link have been aggregated
C1_Witness ==
  /\ Len(links_in) = 2
  /\ Count(links, "a.com", "a.com", "out", << "in-reply-to" >>) = 134
  /\ Count(links, "a.com", "b.com", "out", << "in-reply-to" >>) = 0

\* C2: for every domain D, out_counts[D] is the sum of all 'out' counts of
\* D's edges and in_counts[D] the sum of all their 'in' counts; the links_out
\* and links_in of every full record are these totals of its domain (0 when
\* it has none) and the sums over the record's own links.
C2_Conservation ==
  /\ \A d \in Domains :
       /\ DictGet(out_counts, d, 0) = SumRow(DictGet(links, d, EmptyDict), "out")
       /\ DictGet(in_counts, d, 0) = SumRow(DictGet(links, d, EmptyDict), "in")
  /\ \A i \in 1..Len(full) :
       /\ full[i].links_out = DictGet(out_counts, full[i].domain, 0)
       /\ full[i].links_in = DictGet(in_counts, full[i].domain, 0)
       /\ full[i].links_out = SumRow(full[i].links, "out")
       /\ full[i].links_in = SumRow(full[i].links, "in")

\* a record with two targets, several outgoing records and incoming ones,
\* beside a record of a domain without any link
C2_Witness ==
  \E i \in 1..Len(full), j \in 1..Len(full) :
    /\ Len(full[i].links) = 2
    /\ full[i].links_out > full[i].links_in
    /\ full[i].links_in > 0
    /\ full[j].links = << >>
    /\ full[j].links_out = 0

\* C3: for link records with non-negative counts and classes of the weight
\* vocabulary the scoring completes, and in every domain with maximum raw
\* score m, the edges of raw score m are normalized to 1 if m > 1 and all
\* edges to 0 if m <= 1.
C3_DominantEdge ==
  /\ (\A n \in 1..Len(links_in) : InVocabulary(links_in[n])) => pc # "aborted"
  /\ pc \in AfterScoring =>
       \A r \in Range(links) :
         LET m == MaxRaw(r.v)
         IN  \A t \in Range(r.v) :
               /\ HasScore(t.v)
               /\ (m > 1 /\ RawOf(t.v) = m) => ScoreOf(t.v) = ScoreOne
               /\ m <= 1 => ScoreOf(t.v) = 0

\* C4: every edge of every record of the full, base and internal views has a
\* normalized score between 0 and 1.
C4_ScoreRange ==
  \A site \in AllRecords : \A t \in Range(site.links) :
    /\ HasScore(t.v)
    /\ 0 <= ScoreOf(t.v)
    /\ ScoreOf(t.v) <= ScoreOne

\* a record with an edge scored strictly between 0 and 1 against a maximum
\* raw score that was rounded to three digits
C4_Witness ==
  \E site \in Range(full) : \E s \in Range(site.links), t \in Range(site.links) :
    /\ 0 < ScoreOf(s.v)
    /\ ScoreOf(s.v) < ScoreOne
    /\ RawOf(t.v) >= Pow10(Prec)

\* C5: in every record of every view the links are in non-increasing order
\* of score, and links of equal score are in the order in which their targets
\* entered the domain's edge map during aggregation.
C5_LinkOrder ==
  \A site \in AllRecords :
    \A i \in 1..Len(site.links), j \in 1..Len(site.links) :
      i < j =>
        /\ ScoreOf(site.links[i].v) >= ScoreOf(site.links[j].v)
        /\ ScoreOf(site.links[i].v) = ScoreOf(site.links[j].v) =>
             DictIndex(DictGet(links, site.domain, EmptyDict), site.links[i].k)
               < DictIndex(DictGet(links, site.domain, EmptyDict), site.links[j].k)

\* a record whose two links tie on a score above 0, beside a record whose
\* first link entered its edge map as a mirrored incoming edge
C5_Witness ==
  \E site \in Range(full), other \in Range(full) :
    /\ Len(site.links) = 2
    /\ ScoreOf(site.links[1].v) = ScoreOf(site.links[2].v)
    /\ ScoreOf(site.links[1].v) > 0
    /\ other.links # << >>
    /\ ~DictHas(other.links[1].v, "out")

RECURSIVE KeptIndexes(_, _, _)
KeptIndexes(fullv, ds, i) ==
  IF i > Len(fullv) THEN << >>
  ELSE (IF fullv[i].domain \in ds THEN << i >> ELSE << >>)
         \o KeptIndexes(fullv, ds, i + 1)

\* C7: make_internal returns, in order, the full records whose domain is in
\* the domain set, and the links of each are those links of the full record
\* whose target is in the set, in order.
C7_InternalClosure ==
  pc = "done" =>
    LET kept == KeptIndexes(full, domains, 1)
    IN  /\ Len(internal) = Len(kept)
        /\ \A n \in 1..Len(internal) :
             LET site == internal[n]
                 orig == full[kept[n]]
             IN  /\ site.domain = orig.domain
                 /\ site.domain \in domains
                 /\ DictKeySet(site.links) = DictKeySet(orig.links) \cap domains
                 /\ \A i \in 1..Len(site.links) :
                      site.links[i] = orig.links[DictIndex(orig.links, site.links[i].k)]
                 /\ \A i \in 1..Len(site.links), j \in 1..Len(site.links) :
                      i < j => DictIndex(orig.links, site.links[i].k)
                                 < DictIndex(orig.links, site.links[j].k)

\* a record is dropped, and a kept record loses some links and keeps others
C7_Witness ==
  /\ pc = "done"
  /\ Len(internal) = 1
  /\ Len(full) = 2
  /\ Len(internal[1].links) = 2
  /\ \E i \in 1..Len(full) : Len(full[i].links) > MAX_BASE_LINKS

\* C8: a site whose merged hcard is no JSON text does not end the run: its
\* record is emitted with an empty hcard, as is the record of a site without
\* hcard, and the sites after it are emitted too.
C8_HcardRecoverable ==
  /\ error # "JSONDecodeError"
  /\ pc \in {"base", "domains", "internal", "done"} =>
       LET emitted == sites \o MoreSites(sites, from_domains)
       IN  /\ Len(full) = Len(emitted)
           /\ \A i \in 1..Len(emitted) :
                LET site == Merged(emitted[i], extras)
                IN  ("hcard" \notin DOMAIN site \/ ~JsonLoads(site.hcard).ok)
                      => full[i].hcard = JsonDict(EmptyDict)

\* C9: no two records of the full view, of the base view or of the internal
\* view have the same domain, and the domains of the full view are those of
\* the base site list and the from domains of the link records.
C9_DomainUnique ==
  /\ \A i \in 1..Len(full), j \in 1..Len(full) :
       i < j => full[i].domain # full[j].domain
  /\ \A i \in 1..Len(base), j \in 1..Len(base) :
       i < j => base[i].domain # base[j].domain
  /\ \A i \in 1..Len(internal), j \in 1..Len(internal) :
       i < j => internal[i].domain # internal[j].domain
  /\ pc \in {"base", "domains", "internal", "done"} =>
       SiteDomains(full) = SiteDomains(sites) \cup from_domains

\* C10: once a link record has a class outside the weight vocabulary the run
\* never gets past the scoring, where it ends with an exception; and the
\* KeyError of the weight lookup is raised only if there is such a record.
C10_UnknownClassFatal ==
  LET unknown == \E n \in 1..Len(links_in) : ~InVocabulary(links_in[n])
  IN  /\ unknown => pc \in {"load", "aborted"}
      /\ (unknown /\ pc = "aborted") => error \in {"KeyError", "AttributeError"}
      /\ error = "KeyError" => unknown

\* the run ended on the weight lookup of 'u-like-of', left of 'u-u-like-of',
\* after a record of class 'u-in-reply-to' between the same domains
C10_Witness ==
  /\ pc = "aborted"
  /\ error = "KeyError"
  /\ Len(links_in) = 2
  /\ links_in[1].from_domain = links_in[1].to_domain
  /\ links_in[2] = [links_in[1] EXCEPT !.mf2_class = << "u-", "u-", "like-of" >>]
  /\ "mf2_class" \in DOMAIN links_in[1]
  /\ links_in[1].mf2_class = << "u-", "in-reply-to" >>

=============================================================================
